---------------------------- MODULE Spec2Model ----------------------------
(***************************************************************************)
(* A model of the PG&E bill splitter: the ledger (src/src/database.py,     *)
(* class BillDatabase), the split computation (src/config/settings.py),    *)
(* the extractor (src/config/pge_patterns.py), the ingestion driver        *)
(* (src/src/bill_processor.py, src/src/gmail_parser.py) and the generated  *)
(* automation script (src/src/scheduler.py, main): its per-bill workflow   *)
(* and a whole run.                                                        *)
(*                                                                         *)
(* Units.  A bill amount is a number of cents.  A split ratio is a number  *)
(* of millionths (0.333333 is 333333), so a stored portion, which the code *)
(* never rounds, is a number of millionths of a cent.  A due date is the   *)
(* text MM/DD/YYYY the extractor matched, kept as <<MM, DD, YYYY>>: the    *)
(* text order of two such strings is the order of the tuples read left to  *)
(* right.  TLC's integers are 32 bits wide, so the amounts of the model    *)
(* stay below 2147 cents.                                                  *)
(*                                                                         *)
(* Storage.  Every ledger method opens its own connection, works in an     *)
(* implicit transaction that starts at its first INSERT or UPDATE, and     *)
(* closes the connection on exit.  Only conn.commit() makes the work       *)
(* durable: closing without it rolls the transaction back.  A writer that  *)
(* finds the database locked waits for the lock (sqlite3's busy handler);  *)
(* the model takes the wait to end before the handler's timeout.           *)
(***************************************************************************)
EXTENDS Integers, Sequences, FiniteSets, TLC

VARIABLES
    bills,      \* table bills: a sequence, the row id is the index
    log,        \* table processing_log, in insertion order
    ret,        \* the last completed ledger call and what it returned
    nops,       \* number of ledger calls made so far
    pc,         \* concurrent add_bill callers: where each one is
    draft,      \* concurrent add_bill callers: the bill_info each was given
    res,        \* concurrent add_bill callers: what add_bill returned
    effects,    \* per bill: the collaborator calls the workflow has made
    last,       \* the last pass of the workflow over a bill
    ext,        \* the extractor: the text given and what was extracted
    ing,        \* process_latest_bills: where it is, and its results so far
    run         \* main: where it is, and what it has called so far

vars == <<bills, log, ret, nops, pc, draft, res, effects, last, ext, ing, run>>

----------------------------------------------------------------------------
(* Bounds of the model *)

MaxOps == 3
NumProcs == 2
MaxConcWrites == 1
MaxPasses == 2
MaxCoordBills == 1

----------------------------------------------------------------------------
(* Values *)

\* Python's None where a row id is expected (row ids start at 1).
NoId == 0
\* SQL NULL / Python None in a text column.
NULL == "NULL"
\* SQL NULL in a column the model keeps as a tuple (pdf_path, venmo_link).
NullPath == <<>>

\* Millionths in one: the ratios of settings.py carry six decimals.
Scale == 1000000
ROOMMATE_SPLIT_RATIO == 333333
MY_SPLIT_RATIO == 666667

\* The bill_info dictionaries the callers hand to add_bill: the first two are
\* the same bill seen in two messages (one without a billing period).
Drafts ==
    { [amount |-> 1234, due_date |-> <<8, 8, 2025>>,   email_id |-> "m1", bill_period |-> TRUE],
      [amount |-> 1234, due_date |-> <<8, 8, 2025>>,   email_id |-> "m2", bill_period |-> FALSE],
      [amount |-> 1234, due_date |-> <<12, 15, 2025>>, email_id |-> "m3", bill_period |-> TRUE],
      [amount |-> 815, due_date |-> <<1, 15, 2026>>,  email_id |-> "m4", bill_period |-> TRUE] }

Statuses == {"pending", "completed"}
Notes == {NULL, "paid"}

----------------------------------------------------------------------------
(* The ledger: pure parts *)

\* amount * settings.ROOMMATE_SPLIT_RATIO, unrounded
RoommatePortion(amount) == amount * ROOMMATE_SPLIT_RATIO

\* The payer's share computed with the roommate's ratio (the slip the sum
\* property is there to catch).
MyPortionCopyPaste(amount) == amount * ROOMMATE_SPLIT_RATIO

\* amount * settings.MY_SPLIT_RATIO, unrounded
MyPortion(amount) == amount * MY_SPLIT_RATIO

\* A value in millionths of a cent, to the nearest cent.
RoundToCents(x) == (x + Scale \div 2) \div Scale

\* A lookup keyed on the message id instead of (amount, due date).
FindExistingByEmail(bs, d) ==
    IF \E i \in DOMAIN bs : bs[i].email_id = d.email_id
    THEN CHOOSE i \in DOMAIN bs : bs[i].email_id = d.email_id
    ELSE NoId

\* SELECT id ... WHERE bill_amount = ? AND due_date = ?  (fetchone)
FindExisting(bs, d) ==
    IF \E i \in DOMAIN bs : bs[i].bill_amount = d.amount /\ bs[i].due_date = d.due_date
    THEN CHOOSE i \in DOMAIN bs : bs[i].bill_amount = d.amount /\ bs[i].due_date = d.due_date
    ELSE NoId

\* A schema without the UNIQUE constraint never rejects an insert.
NoUniqueConstraint(bs, d) == FALSE

\* UNIQUE(bill_amount, due_date): would inserting d violate it?
UniqueViolation(bs, d) ==
    \E i \in DOMAIN bs : bs[i].bill_amount = d.amount /\ bs[i].due_date = d.due_date

\* A row that is created as completed.
NewRowCompleted(d) ==
    [ bill_amount      |-> d.amount,
      due_date         |-> d.due_date,
      bill_period      |-> d.bill_period,
      roommate_portion |-> RoommatePortion(d.amount),
      my_portion       |-> MyPortion(d.amount),
      email_id         |-> d.email_id,
      pdf_path         |-> NullPath,
      pdf_generated    |-> FALSE,
      pdf_sent         |-> FALSE,
      venmo_link       |-> NullPath,
      venmo_sent       |-> FALSE,
      status           |-> "completed",
      notes            |-> "Added from email" ]

\* The row INSERT INTO bills creates, with the column defaults of the schema.
NewRow(d) ==
    [ bill_amount      |-> d.amount,
      due_date         |-> d.due_date,
      bill_period      |-> d.bill_period,
      roommate_portion |-> RoommatePortion(d.amount),
      my_portion       |-> MyPortion(d.amount),
      email_id         |-> d.email_id,
      pdf_path         |-> NullPath,
      pdf_generated    |-> FALSE,
      pdf_sent         |-> FALSE,
      venmo_link       |-> NullPath,
      venmo_sent       |-> FALSE,
      status           |-> "pending",
      notes            |-> "Added from email" ]

\* A log that keeps its latest entry only.
log_latest_only(lg, bill_id, action) ==
    << [bill_id |-> bill_id, action |-> action] >>

\* INSERT INTO processing_log (bill_id, action, details); foreign keys are
\* declared but sqlite does not enforce them unless asked to.
log_action(lg, bill_id, action) ==
    Append(lg, [bill_id |-> bill_id, action |-> action])

\* A connection that commits each statement as it is executed.
CloseAutocommit(before, work, committed) == work

\* A connection whose work is never committed.
CloseWithoutCommit(before, work, committed) == before

\* What a connection leaves behind when the with-block is left: the
\* transaction's work if conn.commit() ran, the database as it was if not.
CloseConnection(before, work, committed) ==
    IF committed THEN work ELSE before

\* An add that brings the record it found up to date with the new message.
DuplicateRefreshed(db, existing, d) ==
    [ bills |-> [db.bills EXCEPT ![existing].email_id = d.email_id,
                                 ![existing].bill_period = d.bill_period],
      log |-> log_action(db.log, existing, "duplicate_detected") ]

\* if existing: the database the branch leaves.  It inserts the log row
\* and returns; nothing is committed.
DuplicateFound(db, existing, d) ==
    CloseConnection(db,
        [bills |-> db.bills,
         log |-> log_action(db.log, existing, "duplicate_detected")],
        FALSE)

\* What add_bill returns.
NoResult       == [success |-> FALSE, kind |-> "none",      bill_id |-> NoId]
Added(id)      == [success |-> TRUE,  kind |-> "added",     bill_id |-> id]
Duplicate      == [success |-> FALSE, kind |-> "duplicate", bill_id |-> NoId]
\* An add_bill without its except clauses: the exception reaches the caller.
ReRaise(exc) == [success |-> FALSE, kind |-> "raised", bill_id |-> NoId]

\* except sqlite3.IntegrityError: return False, "Database integrity error", None
\* except Exception:              return False, "Database error", None
AddExceptionResult(exc) ==
    IF exc = "IntegrityError"
    THEN [success |-> FALSE, kind |-> "integrity", bill_id |-> NoId]
    ELSE [success |-> FALSE, kind |-> "error", bill_id |-> NoId]

----------------------------------------------------------------------------
(* The ledger: one caller at a time *)

\* add_bill(bill_info), from the SELECT to the return
add_bill(d) ==
    LET existing == FindExisting(bills, d) IN
    /\ nops < MaxOps
    /\ nops' = nops + 1
    /\ IF existing # NoId
       THEN \* the log row is inserted, then the method returns without commit
            LET db == DuplicateFound([bills |-> bills, log |-> log], existing, d)
            IN /\ bills' = db.bills
               /\ log' = db.log
               /\ ret' = [op |-> "add_bill", draft |-> d, result |-> Duplicate]
       ELSE IF UniqueViolation(bills, d)
       THEN /\ UNCHANGED <<bills, log>>
            /\ ret' = [op |-> "add_bill", draft |-> d,
                       result |-> AddExceptionResult("IntegrityError")]
       ELSE LET id == Len(bills) + 1
                db == CloseConnection(
                        [bills |-> bills, log |-> log],
                        [bills |-> Append(bills, NewRow(d)),
                         log |-> log_action(log, id, "bill_added")],
                        TRUE)
            IN /\ bills' = db.bills
               /\ log' = db.log
               /\ ret' = [op |-> "add_bill", draft |-> d, result |-> Added(id)]
    /\ UNCHANGED <<pc, draft, res, effects, last, ext, ing, run>>

\* UPDATE bills SET ... WHERE id = ?: no row matches an unknown id, and the
\* statement succeeds all the same.
UpdateRow(bs, id, row) ==
    IF id \in DOMAIN bs THEN [bs EXCEPT ![id] = row] ELSE bs

\* notes = COALESCE(?, notes)
Coalesce(new, old) == IF new # NULL THEN new ELSE old

\* The database after the body of an update or mark method: the UPDATE, the
\* log row, the commit.  db is [bills, log].
StatusUpdated(db, id, status, notes) ==
    [ bills |-> IF id \in DOMAIN db.bills
                THEN UpdateRow(db.bills, id,
                        [db.bills[id] EXCEPT !.status = status,
                                             !.notes = Coalesce(notes, @)])
                ELSE db.bills,
      log |-> log_action(db.log, id, "status_updated") ]

\* A mark that takes the document to be new and not yet sent.
PdfRegenerated(db, id, pdf_path) ==
    [ bills |-> IF id \in DOMAIN db.bills
                THEN UpdateRow(db.bills, id,
                        [db.bills[id] EXCEPT !.pdf_generated = TRUE,
                                             !.pdf_path = pdf_path,
                                             !.pdf_sent = FALSE])
                ELSE db.bills,
      log |-> log_action(db.log, id, "pdf_generated") ]

PdfGenerated(db, id, pdf_path) ==
    [ bills |-> IF id \in DOMAIN db.bills
                THEN UpdateRow(db.bills, id,
                        [db.bills[id] EXCEPT !.pdf_generated = TRUE,
                                             !.pdf_path = pdf_path])
                ELSE db.bills,
      log |-> log_action(db.log, id, "pdf_generated") ]

\* A mark that forgets the document once it is sent.
PdfSentForgetsPath(db, id) ==
    [ bills |-> IF id \in DOMAIN db.bills
                THEN UpdateRow(db.bills, id,
                        [db.bills[id] EXCEPT !.pdf_sent = TRUE,
                                             !.pdf_path = NullPath])
                ELSE db.bills,
      log |-> log_action(db.log, id, "pdf_sent") ]

PdfSent(db, id) ==
    [ bills |-> IF id \in DOMAIN db.bills
                THEN UpdateRow(db.bills, id, [db.bills[id] EXCEPT !.pdf_sent = TRUE])
                ELSE db.bills,
      log |-> log_action(db.log, id, "pdf_sent") ]

\* A mark that takes the bill to be completed once the request is sent.
VenmoSentCompletes(db, id, venmo_link) ==
    [ bills |-> IF id \in DOMAIN db.bills
                THEN UpdateRow(db.bills, id,
                        [db.bills[id] EXCEPT !.venmo_sent = TRUE,
                                             !.venmo_link = venmo_link,
                                             !.status = "completed"])
                ELSE db.bills,
      log |-> log_action(db.log, id, "venmo_sent") ]

VenmoSent(db, id, venmo_link) ==
    [ bills |-> IF id \in DOMAIN db.bills
                THEN UpdateRow(db.bills, id,
                        [db.bills[id] EXCEPT !.venmo_sent = TRUE,
                                             !.venmo_link = venmo_link])
                ELSE db.bills,
      log |-> log_action(db.log, id, "venmo_sent") ]

Db == [bills |-> bills, log |-> log]

\* A call of an update or mark method by a client of the ledger: the
\* database it leaves, and the True it returns.
LedgerWrite(op, id, db) ==
    /\ nops < MaxOps
    /\ nops' = nops + 1
    /\ bills' = db.bills
    /\ log' = db.log
    /\ ret' = [op |-> op, bill_id |-> id, ok |-> TRUE]
    /\ UNCHANGED <<pc, draft, res, effects, last, ext, ing, run>>

update_bill_status(id, status, notes) ==
    LedgerWrite("update_bill_status", id, StatusUpdated(Db, id, status, notes))

mark_pdf_generated(id, pdf_path) ==
    LedgerWrite("mark_pdf_generated", id, PdfGenerated(Db, id, pdf_path))

mark_pdf_sent(id) ==
    LedgerWrite("mark_pdf_sent", id, PdfSent(Db, id))

mark_venmo_sent(id, venmo_link) ==
    LedgerWrite("mark_venmo_sent", id, VenmoSent(Db, id, venmo_link))

----------------------------------------------------------------------------
(* The ledger: queries *)

\* The order of two MM/DD/YYYY texts as sqlite compares TEXT values: the
\* column is declared DATE, the value stored is the string the extractor
\* matched, and ORDER BY compares it character by character.
TextLeq(a, b) ==
    \/ a[1] < b[1]
    \/ a[1] = b[1] /\ a[2] < b[2]
    \/ a[1] = b[1] /\ a[2] = b[2] /\ a[3] <= b[3]

\* The order of the two calendar days.
ChronoLeq(a, b) ==
    \/ a[3] < b[3]
    \/ a[3] = b[3] /\ a[1] < b[1]
    \/ a[3] = b[3] /\ a[1] = b[1] /\ a[2] <= b[2]

\* ORDER BY due_date ASC over the row ids of S (equal dates by row id).
RECURSIVE OrderByDueDate(_)
OrderByDueDate(S) ==
    IF S = {} THEN <<>>
    ELSE LET first == CHOOSE i \in S : \A j \in S :
                        \/ bills[i].due_date # bills[j].due_date
                           /\ TextLeq(bills[i].due_date, bills[j].due_date)
                        \/ bills[i].due_date = bills[j].due_date /\ i <= j
         IN <<first>> \o OrderByDueDate(S \ {first})

\* SELECT * FROM bills WHERE status = ? ORDER BY due_date ASC, as row ids
get_bills_by_status(status) ==
    OrderByDueDate({i \in DOMAIN bills : bills[i].status = status})

\* get_processing_log's default limit
DefaultLogLimit == 50

RECURSIVE Reverse(_)
Reverse(s) == IF s = <<>> THEN <<>> ELSE Append(Reverse(Tail(s)), Head(s))

\* SELECT * FROM processing_log [WHERE bill_id = ?] ORDER BY timestamp DESC
\* LIMIT ?: the newest entries first.
get_processing_log(bill_id, limit) ==
    LET kept == IF bill_id # NoId
                THEN SelectSeq(log, LAMBDA e : e.bill_id = bill_id)
                ELSE log
        newest == Reverse(kept)
    IN IF Len(newest) > limit THEN SubSeq(newest, 1, limit) ELSE newest

\* SELECT COUNT(*) FROM bills WHERE status = "pending", taken for the
\* total.
CountPending(bs) == Cardinality({i \in DOMAIN bs : bs[i].status = "pending"})

\* SELECT COUNT(*) FROM bills
CountRows(bs) == Len(bs)

\* SUM(bill_amount), in cents (0 for no row, where SQL gives NULL).
RECURSIVE SumAmounts(_)
SumAmounts(bs) ==
    IF bs = <<>> THEN 0 ELSE Head(bs).bill_amount + SumAmounts(Tail(bs))

\* The cents and the millionths of a cent of a portion, summed apart so
\* that the sum stays exact within 32 bits.
RECURSIVE SumWhole(_, _)
SumWhole(bs, col) ==
    IF bs = <<>> THEN 0 ELSE (Head(bs)[col] \div Scale) + SumWhole(Tail(bs), col)

RECURSIVE SumFraction(_, _)
SumFraction(bs, col) ==
    IF bs = <<>> THEN 0 ELSE (Head(bs)[col] % Scale) + SumFraction(Tail(bs), col)

\* SUM(roommate_portion), SUM(my_portion): cents and millionths of a cent.
SumPortions(bs, col) ==
    [ cents |-> SumWhole(bs, col) + (SumFraction(bs, col) \div Scale),
      millionths |-> SumFraction(bs, col) % Scale ]

ZeroPortion == [cents |-> 0, millionths |-> 0]

\* get_stats: the six counts, and the three sums when the sum of the
\* amounts is neither NULL nor 0, three zeros when it is.
get_stats(bs) ==
    LET count(flag) == Cardinality({i \in DOMAIN bs : bs[i][flag]})
        status(st) == Cardinality({i \in DOMAIN bs : bs[i].status = st})
        summed == bs # <<>> /\ SumAmounts(bs) # 0
    IN [ total_bills     |-> CountRows(bs),
         pending_bills   |-> status("pending"),
         completed_bills |-> status("completed"),
         pdfs_generated  |-> count("pdf_generated"),
         pdfs_sent       |-> count("pdf_sent"),
         venmo_sent      |-> count("venmo_sent"),
         total_amount    |-> IF summed THEN SumAmounts(bs) ELSE 0,
         total_roommate_portion |->
             IF summed THEN SumPortions(bs, "roommate_portion") ELSE ZeroPortion,
         total_my_portion |->
             IF summed THEN SumPortions(bs, "my_portion") ELSE ZeroPortion ]

----------------------------------------------------------------------------
(* The extractor: config/pge_patterns.py *)

\* Python's None where extract_amount returns a float.
NoAmount == -1
\* Python's None where extract_due_date returns a string.
NoDate == <<>>

\* A text is a sequence of pieces.  A piece is a stretch of the text that is
\* written in one of the forms below, N standing for digits, a point and two
\* digits, D for a date MM/DD/YYYY; a piece of form "other" is prose that no
\* rule matches.  Pieces do not overlap, and a match of a rule lies within
\* one piece.
AmountForms ==
    { "Statement balance: $N", "Amount Due: $N", "Total Amount Due: $N",
      "Current charges: $N", "**$N**", "<strong>$N</strong>", "$N</strong>" }

DateForms ==
    { "Payment due date: D", "Due Date: D", "Due by: D",
      "**D**", "<strong>D</strong>", "D</strong>" }

PeriodForms == { "Bill period: D - D", "Service period: D to D" }

\* The amounts and dates written in the texts of the model.
TextAmounts == {0, 815, 1234}
TextDates == { <<8, 8, 2025>>, <<1, 15, 2026>> }

Pieces ==
    [form : AmountForms, amount : TextAmounts, date : {NoDate}]
    \cup [form : DateForms, amount : {NoAmount}, date : TextDates]
    \cup [form : PeriodForms \cup {"other"}, amount : {NoAmount}, date : {NoDate}]

AmountRuleCount == 7
DateRuleCount == 6

\* The rules of AMOUNT_PATTERNS, by their place in the list, that find a
\* match in a piece of the given form (re.search, re.IGNORECASE): the second
\* rule also matches inside "Total Amount Due", the last one inside the
\* strong tag.
AmountFormRules(form) ==
    CASE form = "Statement balance: $N" -> {1}
      [] form = "Amount Due: $N"        -> {2}
      [] form = "Total Amount Due: $N"  -> {2, 3}
      [] form = "Current charges: $N"   -> {4}
      [] form = "**$N**"                -> {5}
      [] form = "<strong>$N</strong>"   -> {6, 7}
      [] form = "$N</strong>"           -> {7}
      [] OTHER                          -> {}

\* The rules of DATE_PATTERNS likewise: case being ignored, the second rule
\* also matches inside "Payment due date".
DateFormRules(form) ==
    CASE form = "Payment due date: D"   -> {1, 2}
      [] form = "Due Date: D"           -> {2}
      [] form = "Due by: D"             -> {3}
      [] form = "**D**"                 -> {4}
      [] form = "<strong>D</strong>"    -> {5, 6}
      [] form = "D</strong>"            -> {6}
      [] OTHER                          -> {}

Min(S) == CHOOSE x \in S : \A y \in S : x <= y

\* Where rule k finds a match in the text.
AmountMatches(k, text) ==
    {i \in DOMAIN text : k \in AmountFormRules(text[i].form)}

DateMatches(k, text) ==
    {i \in DOMAIN text : k \in DateFormRules(text[i].form)}

\* An extractor that takes the first amount in the text that any rule
\* matches, whatever the rule.
extract_amount_leftmost(text) ==
    LET pos == {i \in DOMAIN text : AmountFormRules(text[i].form) # {}}
    IN IF pos = {} THEN NoAmount ELSE text[Min(pos)].amount

\* extract_amount: the rules in the order of the list, re.search's leftmost
\* match of the first rule that matches, float(match.group(1)).
extract_amount(text) ==
    LET hit == {k \in 1 .. AmountRuleCount : AmountMatches(k, text) # {}}
    IN IF hit = {} THEN NoAmount
       ELSE text[Min(AmountMatches(Min(hit), text))].amount

\* extract_due_date: the same over DATE_PATTERNS, match.group(1).
extract_due_date(text) ==
    LET hit == {k \in 1 .. DateRuleCount : DateMatches(k, text) # {}}
    IN IF hit = {} THEN NoDate
       ELSE text[Min(DateMatches(Min(hit), text))].date

\* extract_bill_period: the two dates of the first match, or None.  The
\* model keeps whether there is a period, not its dates.
extract_bill_period(text) ==
    \E i \in DOMAIN text : text[i].form \in PeriodForms

\* Python's truth of an amount: None is false, and so is 0.0.
Truthy(amount) == amount # NoAmount /\ amount # 0

\* What the extractor hands back: the three fields, and the ValueError
\* parse_bill_email raises, if any.
Extracted(amount, due_date, bill_period, error) ==
    [amount |-> amount, due_date |-> due_date, bill_period |-> bill_period,
     error |-> error]

NoExtracted == Extracted(NoAmount, NoDate, FALSE, "none")

\* parse_bill_email: the three extractions, then
\* if not result['amount'] / if not result['due_date'].
parse_bill_email(text) ==
    LET amount == extract_amount(text)
        due_date == extract_due_date(text)
        bill_period == extract_bill_period(text)
    IN IF ~Truthy(amount)
       THEN Extracted(amount, due_date, bill_period, "Could not extract bill amount")
       ELSE IF due_date = NoDate
       THEN Extracted(amount, due_date, bill_period, "Could not extract due date")
       ELSE Extracted(amount, due_date, bill_period, "none")

\* The extractor before any call.
IdleExt == [text |-> <<>>, op |-> "none", out |-> NoExtracted]

----------------------------------------------------------------------------
(* Ingestion: GmailParser.parse_pge_bill and BillProcessor.process_latest_bills *)

MaxMsgs == 2

Piece(form, amount, date) == [form |-> form, amount |-> amount, date |-> date]

\* The messages search_pge_bills may list: two messages about one bill, in
\* the plain and in the converted-HTML format, a message about another
\* bill, and a message with no amount the rules can find.
Mailbox ==
    { [id |-> "m1",
       body |-> << Piece("Amount Due: $N", 1234, NoDate),
                   Piece("Due Date: D", NoAmount, <<8, 8, 2025>>),
                   Piece("Bill period: D - D", NoAmount, NoDate) >>],
      [id |-> "m2",
       body |-> << Piece("**$N**", 1234, NoDate),
                   Piece("**D**", NoAmount, <<8, 8, 2025>>) >>],
      [id |-> "m4",
       body |-> << Piece("Statement balance: $N", 815, NoDate),
                   Piece("Payment due date: D", NoAmount, <<1, 15, 2026>>),
                   Piece("Service period: D to D", NoAmount, NoDate) >>],
      [id |-> "m5",
       body |-> << Piece("other", NoAmount, NoDate),
                   Piece("Due by: D", NoAmount, <<1, 15, 2026>>) >>] }

\* The lists of at most n distinct messages.
MessageLists(n) ==
    { l \in UNION { [1 .. k -> Mailbox] : k \in 0 .. n } :
        \A i \in DOMAIN l : \A j \in DOMAIN l : i # j => l[i] # l[j] }

\* What the environment does to one message of a run: the mail fetch
\* (get_email_content returns the message, returns None on HttpError, or
\* raises something else) and the database (works, or raises an error that
\* is not a constraint violation, such as a locked or unwritable file).
Faults == [fetch : {"ok", "none", "raise"}, storage : {"ok", "error"}]

\* parse_pge_bill(message_id): None when the fetch gives None or the
\* extractor raises ValueError, the bill_info with the message's id
\* otherwise; an exception of the fetch is not caught here.
parse_pge_bill(m, fetch) ==
    LET parsed == parse_bill_email(m.body)
        bill_info == [amount |-> parsed.amount, due_date |-> parsed.due_date,
                      email_id |-> m.id, bill_period |-> parsed.bill_period]
    IN IF fetch = "raise" THEN [status |-> "raise", bill_info |-> bill_info]
       ELSE IF fetch = "none" \/ parsed.error # "none"
       THEN [status |-> "none", bill_info |-> bill_info]
       ELSE [status |-> "ok", bill_info |-> bill_info]

\* add_bill as a function of the database: what it returns and the
\* database it leaves.  An exception of sqlite3 anywhere in the method ends
\* it in one of its except clauses, with nothing committed.
AddBill(db, d, storage) ==
    LET existing == FindExisting(db.bills, d)
        id == Len(db.bills) + 1
    IN IF storage = "error"
       THEN [db |-> db, result |-> AddExceptionResult("OperationalError")]
       ELSE IF existing # NoId
       THEN [db |-> DuplicateFound(db, existing, d),
             result |-> Duplicate]
       ELSE IF UniqueViolation(db.bills, d)
       THEN [db |-> db, result |-> AddExceptionResult("IntegrityError")]
       ELSE [db |-> CloseConnection(db,
                       [bills |-> Append(db.bills, NewRow(d)),
                        log |-> log_action(db.log, id, "bill_added")],
                       TRUE),
             result |-> Added(id)]

\* results, as process_latest_bills initialises it.
NoResults ==
    [processed |-> 0, duplicates |-> 0, errors |-> 0,
     new_bills |-> <<>>, duplicate_bills |-> <<>>, error_messages |-> <<>>]

\* An error count that goes up without a message.
FileErrorSilently(results, message) ==
    [results EXCEPT !.errors = @ + 1]

\* results['errors'] += 1; results['error_messages'].append(...)
FileError(results, message) ==
    [results EXCEPT !.errors = @ + 1,
                    !.error_messages = Append(@, message)]

\* if success: ... else: ...  -- the count under which the driver files
\* what add_bill returned
Counted(result) ==
    IF result.success THEN "processed" ELSE "duplicates"

\* One turn of the loop over the messages: results and the database after
\* it, and what happened to the message (what was done with it, and the
\* count it was filed under).
ProcessedMessage(db, results, m, f) ==
    LET parsed == parse_pge_bill(m, f.fetch)
        d == parsed.bill_info
        added == AddBill(db, d, f.storage)
        filed == Counted(added.result)
    IN IF parsed.status = "raise"
       THEN [db |-> db,
             results |-> FileError(results, <<"Error processing", m.id>>),
             outcome |-> [id |-> m.id, did |-> "raised", filed |-> "errors"]]
       ELSE IF parsed.status = "none"
       THEN [db |-> db,
             results |-> FileError(results, <<"Failed to parse email", m.id>>),
             outcome |-> [id |-> m.id,
                          did |-> IF f.fetch = "none" THEN "unfetched" ELSE "unparsed",
                          filed |-> "errors"]]
       ELSE IF filed = "processed"
       THEN [db |-> added.db,
             results |-> [results EXCEPT
                 !.processed = @ + 1,
                 !.new_bills = Append(@, [bill_id |-> added.result.bill_id,
                                          amount |-> d.amount,
                                          due_date |-> d.due_date])],
             outcome |-> [id |-> m.id, did |-> added.result.kind, filed |-> filed]]
       ELSE [db |-> added.db,
             results |-> [results EXCEPT
                 !.duplicates = @ + 1,
                 !.duplicate_bills = Append(@, [amount |-> d.amount,
                                                due_date |-> d.due_date])],
             outcome |-> [id |-> m.id, did |-> added.result.kind, filed |-> filed]]

\* The driver before any call: the mail service not built yet.
IdleIng ==
    [ phase |-> "idle", service |-> FALSE, calls |-> 0,
      messages |-> <<>>, i |-> 0, results |-> NoResults, outcomes |-> <<>>,
      first |-> [results |-> NoResults, outcomes |-> <<>>] ]

\* process_latest_bills up to its loop: results, the search (which raises
\* when the service was never built, or when the request fails with
\* something other than HttpError; HttpError gives the empty list), and the
\* return when there is no message.  The results of the call before, if
\* any, are what its caller still holds.
Started(g, msgs, search) ==
    IF ~g.service \/ search = "raise"
    THEN [g EXCEPT !.phase = "raised", !.calls = @ + 1]
    ELSE [g EXCEPT !.phase = IF msgs = <<>> THEN "returned" ELSE "loop",
                   !.calls = @ + 1,
                   !.messages = msgs,
                   !.i = 1,
                   !.results = NoResults,
                   !.outcomes = <<>>,
                   !.first = [results |-> g.results, outcomes |-> g.outcomes]]

\* The driver after the turn of the loop that gave out, which returns
\* results after the last message.
Stepped(g, out) ==
    [g EXCEPT !.results = out.results,
              !.outcomes = Append(@, out.outcome),
              !.i = @ + 1,
              !.phase = IF g.i = Len(g.messages) THEN "returned" ELSE "loop"]

\* main before it starts.  before is the database the run found.
IdleRun ==
    [ phase |-> "start", auth |-> "none", result |-> "none", cause |-> "none",
      next |-> 0,
      visits |-> <<>>, processed_bills |-> <<>>, summaries |-> <<>>,
      notices |-> 0, before |-> [bills |-> <<>>, log |-> <<>>] ]

----------------------------------------------------------------------------
(* The collaborators' results that reach the ledger *)

\* generate_bill_pdf: PDF_DIR / "<due date with dashes>-pge-bill.pdf"
\* (of a row or of a bill_info: both carry due_date)
PdfPathOf(bill) == bill.due_date

\* generate_payment_request_link: the amount to two decimals and the month
\* and year of the due date.
VenmoUrlOf(bill) ==
    <<RoundToCents(bill.roommate_portion), bill.due_date[1], bill.due_date[3]>>

\* What the workflow has done for one bill so far: passes over it, calls of
\* the renderer, of the notifier, of the payment-link builder for the notice
\* and for the payment request, and whether every collaborator was ready to
\* succeed in every pass.
NoEffects ==
    [passes |-> 0, renders |-> 0, notices |-> 0, links |-> 0, requests |-> 0,
     allOk |-> TRUE]

\* The ids a caller may pass: every row and one id that matches no row.
CallIds == 1 .. (Len(bills) + 1)

\* The ledger's clients before any call, whatever the database holds.
ClientsInit ==
    /\ ret = [op |-> "none"]
    /\ nops = 0
    /\ pc = [p \in 1 .. NumProcs |-> "idle"]
    /\ draft = [p \in 1 .. NumProcs |-> CHOOSE d \in Drafts : TRUE]
    /\ res = [p \in 1 .. NumProcs |-> NoResult]
    /\ effects = [i \in 1 .. MaxCoordBills |-> NoEffects]
    /\ last = [bill_id |-> NoId]

Init ==
    /\ bills = <<>>
    /\ log = <<>>
    /\ ClientsInit
    /\ ext = IdleExt
    /\ ing = IdleIng
    /\ run = IdleRun

Next ==
    \/ \E d \in Drafts : add_bill(d)
    \/ \E id \in CallIds, s \in Statuses, n \in Notes : update_bill_status(id, s, n)
    \/ \E id \in CallIds, d \in Drafts : mark_pdf_generated(id, PdfPathOf(d))
    \/ \E id \in CallIds : mark_pdf_sent(id)
    \/ \E id \in CallIds, d \in Drafts : mark_venmo_sent(id, VenmoUrlOf(NewRow(d)))

Spec == Init /\ [][Next]_vars

----------------------------------------------------------------------------
(* The ledger: several callers of add_bill at once *)

Procs == 1 .. NumProcs

\* add_bill up to the SELECT.  When a row is found the rest of the call (the
\* log row that is never committed, the return) changes nothing another
\* caller can see, and ends the call here.
AddLookup(p, d) ==
    /\ pc[p] = "idle"
    /\ draft' = [draft EXCEPT ![p] = d]
    /\ IF FindExisting(bills, d) # NoId
       THEN /\ pc' = [pc EXCEPT ![p] = "done"]
            /\ res' = [res EXCEPT ![p] = Duplicate]
       ELSE /\ pc' = [pc EXCEPT ![p] = "insert"]
            /\ UNCHANGED res
    /\ UNCHANGED <<bills, log, ret, nops, effects, last, ext, ing, run>>

\* add_bill from the INSERT to the return.  The INSERT takes the write lock,
\* which the caller keeps until its commit: no other writer comes between
\* the two, and a reader sees the row only after the commit.
AddInsert(p) ==
    /\ pc[p] = "insert"
    /\ pc' = [pc EXCEPT ![p] = "done"]
    /\ IF UniqueViolation(bills, draft[p])
       THEN /\ res' = [res EXCEPT ![p] = AddExceptionResult("IntegrityError")]
            /\ UNCHANGED <<bills, log>>
       ELSE LET id == Len(bills) + 1
                db == CloseConnection(
                        [bills |-> bills, log |-> log],
                        [bills |-> Append(bills, NewRow(draft[p])),
                         log |-> log_action(log, id, "bill_added")],
                        TRUE)
            IN /\ bills' = db.bills
               /\ log' = db.log
               /\ res' = [res EXCEPT ![p] = Added(id)]
    /\ UNCHANGED <<draft, ret, nops, effects, last, ext, ing, run>>

\* An update or mark call of yet another caller.
ConcWrite ==
    /\ nops < MaxConcWrites
    /\ \/ \E id \in CallIds, s \in Statuses, n \in Notes : update_bill_status(id, s, n)
       \/ \E id \in CallIds, d \in Drafts : mark_pdf_generated(id, PdfPathOf(d))
       \/ \E id \in CallIds : mark_pdf_sent(id)
       \/ \E id \in CallIds, d \in Drafts : mark_venmo_sent(id, VenmoUrlOf(NewRow(d)))

NextConc ==
    \/ \E p \in Procs, d \in Drafts : AddLookup(p, d)
    \/ \E p \in Procs : AddInsert(p)
    \/ ConcWrite

SpecConc == Init /\ [][NextConc]_vars

----------------------------------------------------------------------------
(* The workflow: the body of main's loop over the new bills *)

\* What the collaborators are ready to do in one pass: get_email_content
\* returns the message, returns None (HttpError) or raises; generate_bill_pdf
\* returns a path or None; process_bill_venmo_request returns success or not,
\* once for the notice and once for the request; send_bill_notification
\* returns true, returns false or raises.
Envs ==
    [ fetch  : {"ok", "none", "raise"},
      render : {"ok", "fail"},
      link   : {"ok", "fail"},
      notify : {"ok", "fail", "raise"},
      request : {"ok", "fail"} ]

AllSucceed(env) ==
    /\ env.fetch = "ok"
    /\ env.render = "ok"
    /\ env.link = "ok"
    /\ env.notify = "ok"
    /\ env.request = "ok"

\* A loop body that regenerates the document whatever the record says.
AlwaysNeedsPdf(bill) == TRUE

\* if not bill['pdf_generated']
NeedsPdf(bill) == ~bill.pdf_generated

\* if not bill['pdf_sent'] and bill['pdf_generated']
NeedsNotice(bill) == ~bill.pdf_sent /\ bill.pdf_generated

\* A body that goes on after the document could not be made.
NeverStops(fetchCalled, renderOk) == FALSE

\* The two continue statements of the document step, and an exception of
\* the fetch, which the except clause of the body catches: the body is left
\* when the document was needed and was not made.
StopsAfterDocument(fetchCalled, renderOk) == fetchCalled /\ ~renderOk

\* One pass of the loop body over bill id b, from db = [bills, log]: the
\* database it leaves, the collaborators it called and those that succeeded,
\* the path it gave the notifier, and whether the bill joined
\* processed_bills.  bill is the row as get_bill_by_id read it at the start
\* of the pass; it is not read again.
Pass(db, b, env) ==
    LET bill == db.bills[b]
        fetchCalled  == NeedsPdf(bill)
        renderCalled == fetchCalled /\ env.fetch = "ok"
        renderOk     == renderCalled /\ env.render = "ok"
        stopped1     == StopsAfterDocument(fetchCalled, renderOk)
        db1          == IF renderOk THEN PdfGenerated(db, b, PdfPathOf(bill)) ELSE db
        linkCalled   == ~stopped1 /\ NeedsNotice(bill)
        notifyCalled == linkCalled /\ env.link = "ok"
        notifyOk     == notifyCalled /\ env.notify = "ok"
        stopped2     == notifyCalled /\ env.notify = "raise"
        db2          == IF notifyOk THEN PdfSent(db1, b) ELSE db1
        requestCalled == ~stopped1 /\ ~stopped2
        requestOk    == requestCalled /\ env.request = "ok"
        db3          == IF requestOk THEN VenmoSent(db2, b, VenmoUrlOf(bill)) ELSE db2
    IN [ db |-> db3,
         called |-> {c \in {"fetch"} : fetchCalled}
                    \cup {c \in {"render"} : renderCalled}
                    \cup {c \in {"link"} : linkCalled}
                    \cup {c \in {"notify"} : notifyCalled}
                    \cup {c \in {"request"} : requestCalled},
         ok |-> {c \in {"fetch"} : renderCalled}
                    \cup {c \in {"render"} : renderOk}
                    \cup {c \in {"link"} : notifyCalled}
                    \cup {c \in {"notify"} : notifyOk}
                    \cup {c \in {"request"} : requestOk},
         noticePath |-> IF notifyCalled THEN bill.pdf_path ELSE NullPath,
         processed |-> requestOk ]

Count(c, called) == IF c \in called THEN 1 ELSE 0

\* The passes made so far over the bills 1 .. n.
RECURSIVE PassesUpTo(_)
PassesUpTo(n) == IF n = 0 THEN 0 ELSE effects[n].passes + PassesUpTo(n - 1)

\* The loop body run for bill b.
ProcessBill(b, env) ==
    LET out == Pass(Db, b, env)
        e == effects[b]
    IN /\ b \in DOMAIN bills
       /\ PassesUpTo(MaxCoordBills) < MaxPasses
       /\ bills' = out.db.bills
       /\ log' = out.db.log
       /\ effects' = [effects EXCEPT ![b] =
            [ passes   |-> e.passes + 1,
              renders  |-> e.renders + Count("render", out.called),
              notices  |-> e.notices + Count("notify", out.called),
              links    |-> e.links + Count("link", out.called),
              requests |-> e.requests + Count("request", out.called),
              allOk    |-> e.allOk /\ AllSucceed(env) ]]
       /\ last' = [ bill_id |-> b, before |-> bills[b], called |-> out.called,
                    ok |-> out.ok, noticePath |-> out.noticePath,
                    allOk |-> AllSucceed(env) ]
       /\ UNCHANGED <<ret, nops, pc, draft, res, ext, ing, run>>

\* process_latest_bills hands a parsed message to add_bill.
Ingest(d) ==
    /\ nops < MaxCoordBills
    /\ add_bill(d)

\* The loop body taken as an operation of its own, which a caller may run
\* for any recorded bill, and again: main runs it once for each bill it has
\* just added.
NextCoord ==
    \/ \E d \in Drafts : Ingest(d)
    \/ \E b \in DOMAIN bills, env \in Envs : ProcessBill(b, env)

SpecCoord == Init /\ [][NextCoord]_vars

----------------------------------------------------------------------------
(* The workflow, and a client of the ledger beside it *)

\* The ledger calls and the passes made so far, together, are bounded.
WithinBudget == nops + PassesUpTo(MaxCoordBills) < MaxOps

\* What a client does with a recorded bill by hand: mark_bill_completed
\* (update_bill_status with 'completed' and no notes), or a mark method
\* with the path or the link that belongs to the bill.
ClientCall(id) ==
    /\ WithinBudget
    /\ \/ update_bill_status(id, "completed", NULL)
       \/ mark_pdf_generated(id, PdfPathOf(bills[id]))
       \/ mark_pdf_sent(id)
       \/ mark_venmo_sent(id, VenmoUrlOf(bills[id]))

\* Bills are added, the loop body runs for recorded bills, and the client
\* calls the ledger, in any order.
NextAny ==
    \/ \E d \in Drafts : WithinBudget /\ Ingest(d)
    \/ \E b \in DOMAIN bills, env \in Envs : WithinBudget /\ ProcessBill(b, env)
    \/ \E id \in DOMAIN bills : ClientCall(id)

SpecAny == Init /\ [][NextAny]_vars

----------------------------------------------------------------------------
(* The ledger with statements that fail *)

\* Where a method's transaction may raise: at its first statement on bills
\* (the INSERT or the UPDATE), at the INSERT of the log row, at the commit;
\* or nowhere.
FaultPoints == {"none", "statement", "log", "commit"}

\* What the transaction has done when it stops at a fault, done being the
\* database after the whole body: nothing, the statement on bills alone,
\* or both statements.
WorkUpTo(db, done, fault) ==
    CASE fault = "statement" -> db
      [] fault = "log" -> [bills |-> done.bills, log |-> db.log]
      [] OTHER -> done

\* The database a method leaves whose transaction met the fault: the
\* exception leaves the with-block, the connection is closed, and only a
\* commit that ran makes the work last.
Transaction(db, done, fault) ==
    CloseConnection(db, WorkUpTo(db, done, fault), fault = "none")

\* add_bill for a draft that matches no row, with a statement that raises:
\* except Exception returns the error.
FailedAdd(d, fault) ==
    /\ fault # "none"
    /\ nops < MaxOps
    /\ FindExisting(bills, d) = NoId
    /\ nops' = nops + 1
    /\ LET id == Len(bills) + 1
           done == [bills |-> Append(bills, NewRow(d)),
                    log |-> log_action(log, id, "bill_added")]
           db == Transaction(Db, done, fault)
       IN /\ bills' = db.bills
          /\ log' = db.log
    /\ ret' = [op |-> "add_bill", draft |-> d, fault |-> fault,
               result |-> AddExceptionResult("OperationalError")]
    /\ UNCHANGED <<pc, draft, res, effects, last, ext, ing, run>>

\* An update or mark method with a statement that raises: except Exception
\* returns False.
FailedWrite(op, id, done, fault) ==
    /\ fault # "none"
    /\ nops < MaxOps
    /\ nops' = nops + 1
    /\ LET db == Transaction(Db, done, fault)
       IN /\ bills' = db.bills
          /\ log' = db.log
    /\ ret' = [op |-> op, bill_id |-> id, ok |-> FALSE, fault |-> fault]
    /\ UNCHANGED <<pc, draft, res, effects, last, ext, ing, run>>

FailedCall(id, fault) ==
    \/ FailedWrite("update_bill_status", id,
                   StatusUpdated(Db, id, "completed", NULL), fault)
    \/ FailedWrite("mark_pdf_generated", id,
                   PdfGenerated(Db, id, PdfPathOf(bills[id])), fault)
    \/ FailedWrite("mark_pdf_sent", id, PdfSent(Db, id), fault)
    \/ FailedWrite("mark_venmo_sent", id,
                   VenmoSent(Db, id, VenmoUrlOf(bills[id])), fault)

NextFault ==
    \/ Next
    \/ \E d \in Drafts, fault \in FaultPoints : FailedAdd(d, fault)
    \/ \E id \in DOMAIN bills, fault \in FaultPoints : FailedCall(id, fault)

SpecFault == Init /\ [][NextFault]_vars

----------------------------------------------------------------------------
(* The extractor called on a text *)

MaxPieces == 2

\* The texts of at most n pieces.
Texts(n) == UNION { [1 .. k -> Pieces] : k \in 0 .. n }

ledgerVars == <<bills, log, ret, nops, pc, draft, res, effects, last>>

ExtractAmount ==
    /\ ext.op = "none"
    /\ ext' = [ext EXCEPT !.op = "extract_amount",
                          !.out.amount = extract_amount(ext.text)]
    /\ UNCHANGED <<ledgerVars, ing, run>>

ExtractDueDate ==
    /\ ext.op = "none"
    /\ ext' = [ext EXCEPT !.op = "extract_due_date",
                          !.out.due_date = extract_due_date(ext.text)]
    /\ UNCHANGED <<ledgerVars, ing, run>>

ParseBillEmail ==
    /\ ext.op = "none"
    /\ ext' = [ext EXCEPT !.op = "parse_bill_email",
                          !.out = parse_bill_email(ext.text)]
    /\ UNCHANGED <<ledgerVars, ing, run>>

InitExtract ==
    /\ bills = <<>>
    /\ log = <<>>
    /\ ClientsInit
    /\ ext \in { [IdleExt EXCEPT !.text = t] : t \in Texts(MaxPieces) }
    /\ ing = IdleIng
    /\ run = IdleRun

NextExtract ==
    \/ ExtractAmount
    \/ ExtractDueDate
    \/ ParseBillEmail

SpecExtract == InitExtract /\ [][NextExtract]_vars

----------------------------------------------------------------------------
(* Ingestion run twice: BillProcessor.test_duplicate_detection *)

\* The calls of process_latest_bills that test_duplicate_detection makes.
NumTestRuns == 2

\* authenticate_gmail: true when gmail.authenticate() built the service,
\* false when it raised.
TestAuthenticate(ok) ==
    /\ ing.phase = "idle"
    /\ ing.calls = 0
    /\ ~ing.service
    /\ ing' = [ing EXCEPT !.service = ok]
    /\ UNCHANGED <<ledgerVars, ext, run>>

\* A call of process_latest_bills up to its loop.  The mailbox does not
\* change between the two calls: the second search lists what the first
\* one listed.
TestRun(msgs, search) ==
    /\ ing.phase \in {"idle", "returned"}
    /\ ing.calls < NumTestRuns
    /\ ing.calls > 0 => msgs = ing.messages
    /\ ing' = Started(ing, msgs, search)
    /\ UNCHANGED <<ledgerVars, ext, run>>

\* One turn of the loop of process_latest_bills.
TestMessage(f) ==
    /\ ing.phase = "loop"
    /\ LET out == ProcessedMessage(Db, ing.results, ing.messages[ing.i], f)
       IN /\ bills' = out.db.bills
          /\ log' = out.db.log
          /\ ing' = Stepped(ing, out)
    /\ UNCHANGED <<ret, nops, pc, draft, res, effects, last, ext, run>>

NextIngest ==
    \/ \E ok \in BOOLEAN : TestAuthenticate(ok)
    \/ \E msgs \in MessageLists(MaxMsgs), search \in {"ok", "raise"} : TestRun(msgs, search)
    \/ \E f \in Faults : TestMessage(f)

SpecIngest == Init /\ [][NextIngest]_vars

----------------------------------------------------------------------------
(* One run of main *)

\* The databases a run may find: a new one, or one that holds the bill of
\* message m1 from an earlier run that got no further than adding it.
EarlierLedgers ==
    LET empty == [bills |-> <<>>, log |-> <<>>]
        m1 == CHOOSE m \in Mailbox : m.id = "m1"
    IN { empty, AddBill(empty, parse_pge_bill(m1, "ok").bill_info, "ok").db }

\* except Exception at the end of main: the error is logged, the error
\* notification is tried (an exception of it is dropped), False is returned.
Failed(r, cause) ==
    [r EXCEPT !.phase = "done", !.result = "failed", !.cause = cause,
              !.notices = @ + 1]

\* A main that goes on to step 2 whatever authenticate_gmail returned.
IgnoreAuthentication(r, ok) ==
    [r EXCEPT !.phase = "ingest", !.auth = IF ok THEN "ok" ELSE "failed"]

\* if not processor.authenticate_gmail(): return False
AfterAuthentication(r, ok) ==
    IF ok
    THEN [r EXCEPT !.phase = "ingest", !.auth = "ok"]
    ELSE [r EXCEPT !.phase = "done", !.auth = "failed", !.result = "failed",
                   !.cause = "authentication"]

\* Step 1: authenticate_gmail builds the mail service or returns False.
MainAuthenticate(ok) ==
    /\ run.phase = "start"
    /\ ing' = [ing EXCEPT !.service = ok]
    /\ run' = AfterAuthentication(run, ok)
    /\ UNCHANGED <<ledgerVars, ext>>

\* Step 2, process_latest_bills up to its loop; an exception of the search
\* ends the run.
MainSearch(msgs, search) ==
    /\ run.phase = "ingest"
    /\ ing.phase = "idle"
    /\ ing' = Started(ing, msgs, search)
    /\ run' = IF ing'.phase = "raised" THEN Failed(run, "ingestion") ELSE run
    /\ UNCHANGED <<ledgerVars, ext>>

\* Step 2, one turn of the loop of process_latest_bills.
MainMessage(f) ==
    /\ run.phase = "ingest"
    /\ ing.phase = "loop"
    /\ LET out == ProcessedMessage(Db, ing.results, ing.messages[ing.i], f)
       IN /\ bills' = out.db.bills
          /\ log' = out.db.log
          /\ ing' = Stepped(ing, out)
    /\ UNCHANGED <<ret, nops, pc, draft, res, effects, last, ext, run>>

\* After step 2: the error notification when results['errors'] > 0, which
\* returns or raises; then processed_bills = [].
MainResults(notice) ==
    /\ run.phase = "ingest"
    /\ ing.phase = "returned"
    /\ run' = IF ing.results.errors > 0
              THEN IF notice = "raise"
                   THEN Failed([run EXCEPT !.notices = @ + 1], "error notification")
                   ELSE [run EXCEPT !.phase = "loop", !.next = 1, !.notices = @ + 1]
              ELSE [run EXCEPT !.phase = "loop", !.next = 1]
    /\ UNCHANGED <<ledgerVars, ext, ing>>

\* A loop that a failed collaborator ends: nothing catches the failure
\* before the handler at the end of main.
VisitedOrAborted(r, b, out) ==
    IF out.called # out.ok
    THEN Failed(r, "collaborator")
    ELSE [r EXCEPT
            !.next = @ + 1,
            !.visits = Append(@, [bill_id |-> b, called |-> out.called,
                                  ok |-> out.ok]),
            !.processed_bills = IF out.processed THEN Append(@, b) ELSE @]

\* main after the body of the loop ran for bill b: every way out of the
\* body (its end, continue, the except clause) leads to the next entry.
Visited(r, b, out) ==
    [r EXCEPT
        !.next = @ + 1,
        !.visits = Append(@, [bill_id |-> b, called |-> out.called,
                              ok |-> out.ok]),
        !.processed_bills = IF out.processed THEN Append(@, b) ELSE @]

\* Step 3: the body of the loop for the next entry of results['new_bills'].
MainVisit(env) ==
    /\ run.phase = "loop"
    /\ run.next <= Len(ing.results.new_bills)
    /\ LET b == ing.results.new_bills[run.next].bill_id
           out == Pass(Db, b, env)
       IN /\ bills' = out.db.bills
          /\ log' = out.db.log
          /\ run' = Visited(run, b, out)
    /\ UNCHANGED <<ret, nops, pc, draft, res, effects, last, ext, ing>>

\* A summary sent for each processed bill on its own.
SummaryPerRecord(processed_bills) ==
    [k \in DOMAIN processed_bills |-> <<processed_bills[k]>>]

\* if processed_bills: send_monthly_summary(processed_bills, month_year)
\* -- the calls of the summary notifier, each with the bills it is given
SummaryCalls(processed_bills) ==
    IF processed_bills # <<>> THEN <<processed_bills>> ELSE <<>>

\* Step 4 and the end of main: the monthly summary if processed_bills is
\* not empty, which returns or raises; return True.
MainSummary(summary) ==
    /\ run.phase = "loop"
    /\ run.next > Len(ing.results.new_bills)
    /\ run' = IF run.processed_bills # <<>>
              THEN LET r == [run EXCEPT !.summaries =
                                @ \o SummaryCalls(run.processed_bills)]
                   IN IF summary = "raise"
                      THEN Failed(r, "summary")
                      ELSE [r EXCEPT !.phase = "done", !.result = "ok"]
              ELSE [run EXCEPT !.phase = "done", !.result = "ok"]
    /\ UNCHANGED <<ledgerVars, ext, ing>>

NotifierOutcomes == {"ok", "fail", "raise"}

InitRun ==
    /\ \E db \in EarlierLedgers :
         /\ bills = db.bills
         /\ log = db.log
         /\ run = [IdleRun EXCEPT !.before = db]
    /\ ClientsInit
    /\ ext = IdleExt
    /\ ing = IdleIng

NextRun ==
    \/ \E ok \in BOOLEAN : MainAuthenticate(ok)
    \/ \E msgs \in MessageLists(MaxMsgs), search \in {"ok", "raise"} : MainSearch(msgs, search)
    \/ \E f \in Faults : MainMessage(f)
    \/ \E notice \in NotifierOutcomes : MainResults(notice)
    \/ \E env \in Envs : MainVisit(env)
    \/ \E summary \in NotifierOutcomes : MainSummary(summary)

SpecRun == InitRun /\ [][NextRun]_vars

----------------------------------------------------------------------------
(* Several runs of main at once, over one mailbox *)

\* The runs there may be at once: the one launchd starts on schedule and
\* the one test_automation_script starts.
NumRuns == 2

Runs == 1 .. NumRuns

\* Every run has its own driver and its own main, all authenticated; the
\* database is the one they share.
InitRuns ==
    /\ bills = <<>>
    /\ log = <<>>
    /\ ClientsInit
    /\ ext = IdleExt
    /\ ing = [p \in Runs |-> [IdleIng EXCEPT !.service = TRUE]]
    /\ run = [p \in Runs |-> [IdleRun EXCEPT !.phase = "ingest", !.auth = "ok"]]

\* process_latest_bills of every run up to its loop.  The runs search the
\* same mailbox, and each lists what the others list; a search reads the
\* mailbox and nothing of the database, so that the order of the searches
\* among the other steps makes no difference.
RunSearch(msgs) ==
    /\ \A p \in Runs : ing[p].phase = "idle"
    /\ ing' = [p \in Runs |-> Started(ing[p], msgs, "ok")]
    /\ UNCHANGED <<ledgerVars, ext, run>>

\* A turn of the loop of run p up to the SELECT of add_bill.  When the
\* message gives no bill, the database fails or a row is found, the rest of
\* the turn touches nothing another run can see, and the turn ends here;
\* otherwise the INSERT is still to come.
RunLookup(p, f) ==
    /\ ing[p].phase = "loop"
    /\ pc[p] = "idle"
    /\ LET g == ing[p]
           m == g.messages[g.i]
           parsed == parse_pge_bill(m, f.fetch)
           d == parsed.bill_info
           out == ProcessedMessage(Db, g.results, m, f)
       IN IF \/ parsed.status # "ok"
             \/ f.storage = "error"
             \/ FindExisting(bills, d) # NoId
          THEN /\ bills' = out.db.bills
               /\ log' = out.db.log
               /\ ing' = [ing EXCEPT ![p] = Stepped(g, out)]
               /\ UNCHANGED <<pc, draft>>
          ELSE /\ pc' = [pc EXCEPT ![p] = "insert"]
               /\ draft' = [draft EXCEPT ![p] = d]
               /\ UNCHANGED <<bills, log, ing>>
    /\ UNCHANGED <<ret, nops, res, effects, last, ext, run>>

\* The turn of run p from the INSERT of add_bill on: the constraint rejects
\* the row another run has inserted since the SELECT, and the driver files
\* what add_bill returns.
RunInsert(p) ==
    /\ pc[p] = "insert"
    /\ pc' = [pc EXCEPT ![p] = "idle"]
    /\ LET g == ing[p]
           m == g.messages[g.i]
           d == draft[p]
           id == Len(bills) + 1
       IN IF UniqueViolation(bills, d)
          THEN /\ UNCHANGED <<bills, log>>
               /\ ing' = [ing EXCEPT ![p] = Stepped(g,
                    [ results |-> [g.results EXCEPT
                        !.duplicates = @ + 1,
                        !.duplicate_bills = Append(@, [amount |-> d.amount,
                                                       due_date |-> d.due_date])],
                      outcome |-> [id |-> m.id,
                                   did |-> AddExceptionResult("IntegrityError").kind,
                                   filed |-> Counted(AddExceptionResult("IntegrityError"))] ])]
          ELSE LET db == CloseConnection(Db,
                            [bills |-> Append(bills, NewRow(d)),
                             log |-> log_action(log, id, "bill_added")],
                            TRUE)
               IN /\ bills' = db.bills
                  /\ log' = db.log
                  /\ ing' = [ing EXCEPT ![p] = Stepped(g,
                        [ results |-> [g.results EXCEPT
                            !.processed = @ + 1,
                            !.new_bills = Append(@, [bill_id |-> id,
                                                     amount |-> d.amount,
                                                     due_date |-> d.due_date])],
                          outcome |-> [id |-> m.id, did |-> Added(id).kind,
                                       filed |-> Counted(Added(id))] ])]
    /\ UNCHANGED <<ret, nops, draft, res, effects, last, ext, run>>

\* The body of main's loop in run p, for the next entry of its own
\* results['new_bills'].
RunVisit(p, env) ==
    /\ ing[p].phase = "returned"
    /\ run[p].next < Len(ing[p].results.new_bills)
    /\ LET b == ing[p].results.new_bills[run[p].next + 1].bill_id
           out == Pass(Db, b, env)
       IN /\ bills' = out.db.bills
          /\ log' = out.db.log
          /\ run' = [run EXCEPT ![p] = Visited(run[p], b, out)]
    /\ UNCHANGED <<ret, nops, pc, draft, res, effects, last, ext, ing>>

\* The mail fetch and the database work while the runs read the mailbox:
\* what a run does with a message it cannot read or store is the subject
\* of the ingestion run on its own.
ReadyFaults == {f \in Faults : f.fetch = "ok" /\ f.storage = "ok"}

\* The passes in which at most one collaborator fails.
OneFailure ==
    { env \in Envs :
        Cardinality({c \in DOMAIN env : env[c] # "ok"}) <= 1 }

NextRuns ==
    \/ \E msgs \in MessageLists(MaxMsgs) : RunSearch(msgs)
    \/ \E p \in Runs, f \in ReadyFaults : RunLookup(p, f)
    \/ \E p \in Runs : RunInsert(p)
    \/ \E p \in Runs, env \in OneFailure : RunVisit(p, env)

SpecRuns == InitRuns /\ [][NextRuns]_vars

----------------------------------------------------------------------------
(* Claims about the ledger with one caller at a time (Spec) *)

KeyRows(bs, d) ==
    {i \in DOMAIN bs : bs[i].bill_amount = d.amount /\ bs[i].due_date = d.due_date}

MarkOps == {"update_bill_status", "mark_pdf_generated", "mark_pdf_sent", "mark_venmo_sent"}

\* C2, as stated: an add that finds a record with the same (amount, due date)
\* returns a duplicate outcome that carries the existing record's id.
C2_DuplicateCarriesExistingId ==
    (ret.op = "add_bill" /\ ~ret.result.success)
        => \E i \in KeyRows(bills, ret.draft) : ret.result.bill_id = i

\* C2, amended: an add of a draft whose (amount, due date) is not recorded
\* yet returns Added with the id of the record it creates; an add of a draft
\* whose (amount, due date) is recorded already, whatever its message id or
\* billing period, returns the duplicate outcome, whose id is None, and
\* creates no record.
C2_SecondAddIsDuplicateWithoutId ==
    [][\A d \in Drafts :
         (ret'.op = "add_bill" /\ ret'.draft = d) =>
            IF KeyRows(bills, d) # {}
            THEN /\ ret'.result = Duplicate
                 /\ ret'.result.bill_id = NoId
                 /\ bills' = bills
            ELSE /\ ret'.result = Added(Len(bills) + 1)
                 /\ KeyRows(bills', d) = {Len(bills) + 1}
                 /\ bills'[Len(bills) + 1].email_id = d.email_id]_vars

\* C2's case: the second add of a bill, from another message and without the
\* billing period, has returned the duplicate outcome.
C2_Witness ==
    /\ ret.op = "add_bill"
    /\ ret.result = Duplicate
    /\ \E i \in KeyRows(bills, ret.draft) :
         /\ bills[i].email_id # ret.draft.email_id
         /\ bills[i].bill_period # ret.draft.bill_period

\* C3: an add that finds an existing record leaves a duplicate_detected log
\* entry for that record, which the next get_processing_log call returns
\* first.
C3_DuplicateIsLogged ==
    (ret.op = "add_bill" /\ ret.result.kind = "duplicate")
        => LET entries == get_processing_log(NoId, DefaultLogLimit)
           IN /\ entries # <<>>
              /\ entries[1].action = "duplicate_detected"
              /\ entries[1].bill_id \in KeyRows(bills, ret.draft)

\* C5: for every bill record, the stored roommate portion plus the stored
\* owner portion is the bill amount, to the cent.
C5_SplitsSumToAmount ==
    \A i \in DOMAIN bills :
        RoundToCents(bills[i].roommate_portion + bills[i].my_portion)
            = bills[i].bill_amount

\* C5's case: a record whose amount does not divide by three, so that
\* neither stored portion is a whole number of cents.
C5_Witness ==
    \E i \in DOMAIN bills :
        /\ bills[i].roommate_portion % Scale # 0
        /\ bills[i].my_portion % Scale # 0

\* C9: get_bills_by_status(s) holds exactly the records of status s, in
\* ascending order of the calendar day they are due.
C9_ListedInChronologicalOrder ==
    \A s \in Statuses :
        LET r == get_bills_by_status(s) IN
        /\ {r[k] : k \in DOMAIN r} = {i \in DOMAIN bills : bills[i].status = s}
        /\ Len(r) = Cardinality({i \in DOMAIN bills : bills[i].status = s})
        /\ \A k \in DOMAIN r : \A l \in DOMAIN r :
             k < l => ChronoLeq(bills[r[k]].due_date, bills[r[l]].due_date)

\* C10: an update or mark call with an id that matches no record returns
\* NotFound and changes neither the bill records nor the action log.
C10_UnknownIdIsNotFound ==
    [][(ret'.op \in MarkOps /\ ret'.bill_id \notin DOMAIN bills)
          => (ret'.ok = FALSE /\ bills' = bills /\ log' = log)]_vars

----------------------------------------------------------------------------
(* Claims about concurrent callers (SpecConc) *)

\* C1: in every reachable state, whatever the interleaving of adds, updates
\* and marks, no two bill records have the same (amount, due date).
C1_KeyIsUnique ==
    \A i \in DOMAIN bills : \A j \in DOMAIN bills :
        (bills[i].bill_amount = bills[j].bill_amount
            /\ bills[i].due_date = bills[j].due_date) => i = j

\* C1's case: two adds of one bill both found nothing, the second INSERT
\* was refused, and an update or mark call ran too.
C1_Witness ==
    /\ \E p \in Procs : res[p].kind = "integrity"
    /\ ret.op \in MarkOps

\* C4: when the adds of all callers have returned, for each (amount, due
\* date) given to some of them exactly one caller got Added, every other one
\* got a returned not-added outcome (nothing raised), and one record holds
\* the key.
C4_ExactlyOneAddWins ==
    (\A p \in Procs : pc[p] = "done") =>
        \A p \in Procs :
            LET same == {q \in Procs : /\ draft[q].amount = draft[p].amount
                                       /\ draft[q].due_date = draft[p].due_date}
                winners == {q \in same : res[q].success}
            IN /\ Cardinality(winners) = 1
               /\ \A q \in winners : res[q].kind = "added"
               /\ \A q \in same \ winners : res[q].kind \in {"duplicate", "integrity"}
               /\ Cardinality(KeyRows(bills, draft[p])) = 1

\* C4's case: two adds of one bill interleaved, lookup, lookup, insert,
\* insert, and both have returned.
C4_Witness ==
    /\ \A p \in Procs : pc[p] = "done"
    /\ \E p \in Procs, q \in Procs :
         /\ p # q
         /\ draft[p].amount = draft[q].amount
         /\ draft[p].due_date = draft[q].due_date
         /\ res[p].kind = "added"
         /\ res[q].kind = "integrity"

----------------------------------------------------------------------------
(* Claims about the workflow (SpecCoord) *)

AllFlags(bill) == bill.pdf_generated /\ bill.pdf_sent /\ bill.venmo_sent
NoFlags(bill) == ~bill.pdf_generated /\ ~bill.pdf_sent /\ ~bill.venmo_sent

\* C6: after one pass over a newly added record (all three flags false) in
\* which the mail fetch, the renderer, the payment-link builder and the
\* notifier all succeed, the record's three flags are all true.
C6_OnePassSetsAllFlags ==
    (last.bill_id # NoId /\ NoFlags(last.before) /\ last.allOk)
        => AllFlags(bills[last.bill_id])

\* C7: two passes over the same record, all collaborators succeeding both
\* times, render the document, send the bill notice and make the payment
\* request at most once each.
C7_NoSideEffectTwice ==
    \A b \in DOMAIN bills :
        (effects[b].passes = 2 /\ effects[b].allOk)
            => /\ effects[b].renders <= 1
               /\ effects[b].notices <= 1
               /\ effects[b].requests <= 1

\* C8, as stated: a pass over a record whose document is generated and not
\* sent does not call the renderer, calls the notifier with the stored
\* document path, and sets document-sent when the notifier succeeds.
C8_NoticeAlwaysAttempted ==
    (last.bill_id # NoId /\ last.before.pdf_generated /\ ~last.before.pdf_sent)
        => /\ "render" \notin last.called
           /\ "notify" \in last.called
           /\ last.noticePath = bills[last.bill_id].pdf_path
           /\ "notify" \in last.ok => bills[last.bill_id].pdf_sent

\* C8, amended: a pass over a record whose document is generated and not
\* sent does not call the renderer; it calls the payment-link builder for
\* the payment summary and, exactly when that succeeds, calls the notifier
\* with the stored document path; document-sent is set exactly when the
\* notifier then succeeds.
C8_NoticeAttemptedWhenSummaryBuilt ==
    (last.bill_id # NoId /\ last.before.pdf_generated /\ ~last.before.pdf_sent)
        => /\ "render" \notin last.called
           /\ "link" \in last.called
           /\ "notify" \in last.called <=> "link" \in last.ok
           /\ "notify" \in last.called =>
                /\ last.noticePath = bills[last.bill_id].pdf_path
                /\ last.noticePath = PdfPathOf(last.before)
           /\ bills[last.bill_id].pdf_sent <=> "notify" \in last.ok

\* C8's case: a pass found the document generated and not sent, the
\* notifier succeeded, and document-sent is set.
C8_Witness ==
    /\ last.bill_id # NoId
    /\ last.before.pdf_generated
    /\ ~last.before.pdf_sent
    /\ "notify" \in last.ok
    /\ bills[last.bill_id].pdf_sent

----------------------------------------------------------------------------
(* Claims about a run of main (SpecRun) *)

\* The bill ids of the visits in which collaborator c succeeded, in order.
VisitedWith(c) ==
    LET hits == SelectSeq(run.visits, LAMBDA v : c \in v.ok)
    IN [k \in DOMAIN hits |-> hits[k].bill_id]

\* A visit in which a collaborator was called and did not succeed.
FailedVisit(v) == v.called # v.ok

\* C11: if mail authentication fails at the start of a run, the run ends as
\* failed; no bill record is added, no action-log entry appended, the driver
\* is not called, and neither the renderer, the notifier nor the
\* payment-link builder is called.
C11_AuthFailureTouchesNothing ==
    run.auth = "failed" =>
        /\ run.phase = "done"
        /\ run.result = "failed"
        /\ bills = run.before.bills
        /\ log = run.before.log
        /\ ing.calls = 0
        /\ run.visits = <<>>
        /\ run.summaries = <<>>
        /\ run.notices = 0

\* C11's case: authentication failed in a run that found a record from an
\* earlier run.
C11_Witness ==
    /\ run.auth = "failed"
    /\ run.phase = "done"
    /\ bills # <<>>

\* C12: the driver handles every message it was given, whatever failed for
\* the messages before; while main is in its loop the records visited are
\* the first entries of new_bills, one visit each and in order, whatever
\* failed in those visits; when main has left the loop every entry of
\* new_bills was visited, and the run ends normally unless the summary
\* notifier raised.
C12_FailureDoesNotStopLaterRecords ==
    /\ ing.phase = "returned" => Len(ing.outcomes) = Len(ing.messages)
    /\ run.phase = "loop" =>
         /\ Len(run.visits) = run.next - 1
         /\ \A k \in DOMAIN run.visits :
              run.visits[k].bill_id = ing.results.new_bills[k].bill_id
    /\ (run.phase = "done" /\ run.auth = "ok"
            /\ run.cause \notin {"ingestion", "error notification"}) =>
         /\ Len(run.visits) = Len(ing.results.new_bills)
         /\ \A k \in DOMAIN run.visits :
              run.visits[k].bill_id = ing.results.new_bills[k].bill_id
         /\ run.result = "ok" \/ run.cause = "summary"

\* C12's case: a run added two records, a collaborator failed in the visit
\* of the first, the second was visited and its payment request made, and
\* the run ended normally.
C12_Witness ==
    /\ run.phase = "done"
    /\ run.result = "ok"
    /\ Len(run.visits) = 2
    /\ FailedVisit(run.visits[1])
    /\ "request" \in run.visits[2].ok

\* C13: a record whose visit called the mail fetch and did not get a
\* document from the renderer has had neither the notifier nor the
\* payment-link builder called for it, is visited once only, and has its
\* three flags false, from that visit to the end of the run.
C13_RendererFailureStopsRecord ==
    \A k \in DOMAIN run.visits :
        LET v == run.visits[k] IN
        ("fetch" \in v.called /\ "render" \notin v.ok) =>
            /\ v.called \cap {"link", "notify", "request"} = {}
            /\ \A l \in DOMAIN run.visits :
                 run.visits[l].bill_id = v.bill_id => l = k
            /\ NoFlags(bills[v.bill_id])

\* C13's case: the run is over; the renderer was called for one record and
\* failed, and another record of the run went through.
C13_Witness ==
    /\ run.phase = "done"
    /\ \E k \in DOMAIN run.visits, l \in DOMAIN run.visits :
         /\ "render" \in run.visits[k].called
         /\ "render" \notin run.visits[k].ok
         /\ "request" \in run.visits[l].ok
         /\ bills[run.visits[l].bill_id].venmo_sent

\* C15: the summary notifier is called at most once in a run; when the run
\* is over it has been called once, with exactly the records whose payment
\* request succeeded in this run, if there is such a record, and not at all
\* if there is none.
C15_OneSummaryOfProcessedBills ==
    /\ Len(run.summaries) <= 1
    /\ run.phase = "done" =>
         run.summaries = IF VisitedWith("request") # <<>>
                         THEN << VisitedWith("request") >>
                         ELSE <<>>

\* C15's case: the run is over, two payment requests succeeded, and the one
\* summary covers both records.
C15_Witness ==
    /\ run.phase = "done"
    /\ Len(run.summaries) = 1
    /\ Len(run.summaries[1]) = 2

----------------------------------------------------------------------------
(* A claim about the loop body run on any record (SpecCoord) *)

\* C14: a pass in which the notifier is called and fails makes no payment
\* request and leaves the record's payment-request-sent flag as it was.
C14_NotifierFailureStopsRecord ==
    (last.bill_id # NoId /\ "notify" \in last.called /\ "notify" \notin last.ok)
        => /\ "request" \notin last.called
           /\ bills[last.bill_id].venmo_sent = last.before.venmo_sent

----------------------------------------------------------------------------
(* Claims about ingestion (SpecIngest) *)

\* What a message can meet that is neither its text nor the ledger's
\* records: a mail fetch that fails, a database that fails.
Mishaps == {"raised", "unfetched", "error"}

SecondRunOver == ing.calls = NumTestRuns /\ ing.phase = "returned"

\* C16: a message whose add failed with a storage error that is not the
\* uniqueness constraint is counted under errors, not under duplicates.
C16_StorageErrorCountsAsError ==
    \A k \in DOMAIN ing.outcomes :
        ing.outcomes[k].did = "error" => ing.outcomes[k].filed = "errors"

C18_CountsAddUp ==
    ing.phase \in {"loop", "returned"} =>
        LET r == ing.results
            handled == IF ing.phase = "returned"
                       THEN Len(ing.messages)
                       ELSE ing.i - 1
        IN /\ r.processed + r.duplicates + r.errors = handled
           /\ Len(r.error_messages) = r.errors
           /\ Len(r.new_bills) = r.processed
           /\ Len(r.duplicate_bills) = r.duplicates

\* C18's case: a run over two messages returned with one bill added and
\* one error.
C18_Witness ==
    /\ ing.phase = "returned"
    /\ Len(ing.messages) = 2
    /\ ing.results.processed = 1
    /\ ing.results.errors = 1

----------------------------------------------------------------------------
(* Claims about the extractor (SpecExtract) *)

\* The forms that carry a label, and those that are emphasis or markup.
LabelledAmountForms ==
    { "Statement balance: $N", "Amount Due: $N", "Total Amount Due: $N",
      "Current charges: $N" }
EmphasizedAmountForms == AmountForms \ LabelledAmountForms
LabelledDateForms == { "Payment due date: D", "Due Date: D", "Due by: D" }
EmphasizedDateForms == DateForms \ LabelledDateForms

PiecesOf(text, forms) == {i \in DOMAIN text : text[i].form \in forms}

\* C19: for a text with a labelled amount and an emphasized amount that
\* differ, extract_amount returns a labelled amount (the labelled one when
\* there is one only), wherever the two stand in the text; extract_due_date
\* does the same with labelled and emphasized dates.
C19_LabelledBeforeEmphasized ==
    /\ ext.op = "extract_amount" =>
         LET lab == PiecesOf(ext.text, LabelledAmountForms)
             emp == PiecesOf(ext.text, EmphasizedAmountForms)
         IN (\E i \in lab, j \in emp : ext.text[i].amount # ext.text[j].amount)
                => \E i \in lab : ext.out.amount = ext.text[i].amount
    /\ ext.op = "extract_due_date" =>
         LET lab == PiecesOf(ext.text, LabelledDateForms)
             emp == PiecesOf(ext.text, EmphasizedDateForms)
         IN (\E i \in lab, j \in emp : ext.text[i].date # ext.text[j].date)
                => \E i \in lab : ext.out.due_date = ext.text[i].date

\* C19's case: the emphasized amount comes first in the text, the labelled
\* one after it, and extract_amount has returned the labelled one.
C19_Witness ==
    /\ ext.op = "extract_amount"
    /\ Len(ext.text) = 2
    /\ ext.text[1].form \in EmphasizedAmountForms
    /\ ext.text[2].form \in LabelledAmountForms
    /\ ext.text[1].amount # ext.text[2].amount
    /\ ext.out.amount = ext.text[2].amount

\* C20: parse_bill_email raises the missing-amount error when no amount
\* rule matches the text, the missing-due-date error when an amount rule
\* matches and no date rule does, and returns the matched amount and due
\* date otherwise, with or without a billing period.
C20_FailsOnlyWhenNoRuleMatches ==
    ext.op = "parse_bill_email" =>
        LET amountMatched == PiecesOf(ext.text, AmountForms) # {}
            dateMatched == PiecesOf(ext.text, DateForms) # {}
        IN /\ ~amountMatched => ext.out.error = "Could not extract bill amount"
           /\ (amountMatched /\ ~dateMatched)
                => ext.out.error = "Could not extract due date"
           /\ (amountMatched /\ dateMatched) =>
                /\ ext.out.error = "none"
                /\ ext.out.amount = extract_amount(ext.text)
                /\ ext.out.due_date = extract_due_date(ext.text)

----------------------------------------------------------------------------
(* Claims about the records and the totals (Spec) *)

\* The (amount, due date) keys of the records.
KeysOf(bs) == {<<bs[i].bill_amount, bs[i].due_date>> : i \in DOMAIN bs}

\* The sum of the amounts of a set of keys.
RECURSIVE SumOfKeys(_)
SumOfKeys(K) ==
    IF K = {} THEN 0
    ELSE LET k == CHOOSE x \in K : TRUE IN k[1] + SumOfKeys(K \ {k})

\* A step that is a call of add_bill with the given kind of result.
AddReturned(kind) ==
    /\ nops' = nops + 1
    /\ ret'.op = "add_bill"
    /\ ret'.result.kind = kind

\* C21: after any sequence of add_bill calls, duplicates in another format
\* included, get_stats reports as total_bills the number of distinct
\* (amount, due date) keys added and as total_amount the sum of the amounts
\* of those records, every sum being 0 for an empty store; an add gives the
\* key it was called with a record, and a duplicate add leaves the totals
\* as they were.
C21_StatsCountDistinctKeys ==
    /\ [](LET stats == get_stats(bills)
          IN /\ stats.total_bills = Cardinality(KeysOf(bills))
             /\ stats.total_amount = SumOfKeys(KeysOf(bills))
             /\ bills = <<>> =>
                    /\ stats.total_amount = 0
                    /\ stats.total_roommate_portion = ZeroPortion
                    /\ stats.total_my_portion = ZeroPortion)
    /\ [][ /\ AddReturned("added") =>
                KeysOf(bills') =
                    KeysOf(bills) \cup {<<ret'.draft.amount, ret'.draft.due_date>>}
           /\ AddReturned("duplicate") =>
                /\ <<ret'.draft.amount, ret'.draft.due_date>> \in KeysOf(bills)
                /\ get_stats(bills') = get_stats(bills) ]_vars

\* Two bills are recorded, and the last call was a duplicate add of a
\* message other than the one recorded.
C21_Witness ==
    /\ Len(bills) = 2
    /\ ret.op = "add_bill"
    /\ ret.result.kind = "duplicate"
    /\ \E i \in KeyRows(bills, ret.draft) : bills[i].email_id # ret.draft.email_id
    /\ get_stats(bills).total_bills = 2
    /\ get_stats(bills).total_amount = bills[1].bill_amount + bills[2].bill_amount

\* C22: right after add_bill returns an added record, the record is
\* pending, its three flags are false, it has no document path and no
\* payment link, and the log has gained one bill_added entry for it.
C22_AddedRecordIsFresh ==
    [][ AddReturned("added") =>
            LET id == ret'.result.bill_id
            IN /\ id \notin DOMAIN bills
               /\ DOMAIN bills' = DOMAIN bills \cup {id}
               /\ bills'[id].status = "pending"
               /\ NoFlags(bills'[id])
               /\ bills'[id].pdf_path = NullPath
               /\ bills'[id].venmo_link = NullPath
               /\ log' = Append(log, [bill_id |-> id, action |-> "bill_added"]) ]_vars

\* A second record was just added, after the first one was marked.
C22_Witness ==
    /\ ret.op = "add_bill"
    /\ ret.result.kind = "added"
    /\ ret.result.bill_id = 2
    /\ bills[2].status = "pending"
    /\ bills[1].pdf_generated
    /\ Len(log) = 3

\* C24: an add_bill call that returns a duplicate leaves the records as
\* they were: no record more or less, and every field of every record,
\* the existing one included, unchanged.
C24_DuplicateChangesNoRecord ==
    [][ AddReturned("duplicate") => bills' = bills ]_vars

\* A duplicate was returned for a record that was marked and completed
\* since it was added, from a message other than the one recorded.
C24_Witness ==
    /\ ret.op = "add_bill"
    /\ ret.result.kind = "duplicate"
    /\ \E i \in KeyRows(bills, ret.draft) :
        /\ bills[i].email_id # ret.draft.email_id
        /\ bills[i].bill_period # ret.draft.bill_period
        /\ bills[i].status = "completed"

\* A step that is a call of the given update or mark method.
Called(op) ==
    /\ nops' = nops + 1
    /\ ret'.op = op

\* The row with one flag set and one column given a value.
Marked(row, flag, col, value) == [row EXCEPT ![flag] = TRUE, ![col] = value]

\* C27: the amount, the due date, the two portions and the email id of a
\* record never change once it exists, under any call of the ledger; a
\* mark call changes, in the records, at most its own flag and its own
\* column (the path or the link) of the record it names, and appends one
\* log entry.
C27_MarksChangeOnlyTheirOwnColumns ==
    [][ /\ \A id \in DOMAIN bills :
            /\ id \in DOMAIN bills'
            /\ bills'[id].bill_amount = bills[id].bill_amount
            /\ bills'[id].due_date = bills[id].due_date
            /\ bills'[id].roommate_portion = bills[id].roommate_portion
            /\ bills'[id].my_portion = bills[id].my_portion
            /\ bills'[id].email_id = bills[id].email_id
        /\ \A op \in MarkOps \ {"update_bill_status"} :
            Called(op) =>
                LET id == ret'.bill_id
                    flag == CASE op = "mark_pdf_generated" -> "pdf_generated"
                              [] op = "mark_pdf_sent" -> "pdf_sent"
                              [] op = "mark_venmo_sent" -> "venmo_sent"
                    col == CASE op = "mark_pdf_generated" -> "pdf_path"
                             [] op = "mark_pdf_sent" -> "pdf_path"
                             [] op = "mark_venmo_sent" -> "venmo_link"
                IN /\ DOMAIN bills' = DOMAIN bills
                   /\ \A i \in DOMAIN bills : i # id => bills'[i] = bills[i]
                   /\ id \in DOMAIN bills =>
                        /\ bills'[id] = Marked(bills[id], flag, col, bills'[id][col])
                        /\ op = "mark_pdf_sent" => bills'[id].pdf_path = bills[id].pdf_path
                   /\ Len(log') = Len(log) + 1
                   /\ SubSeq(log', 1, Len(log)) = log
                   /\ log'[Len(log')].bill_id = id ]_vars

\* A record that was completed with a note and has a document was marked
\* as sent.
C27_Witness ==
    /\ ret.op = "mark_pdf_sent"
    /\ ret.bill_id \in DOMAIN bills
    /\ bills[ret.bill_id].status = "completed"
    /\ bills[ret.bill_id].notes = "paid"
    /\ bills[ret.bill_id].pdf_sent
    /\ ~bills[ret.bill_id].pdf_generated

----------------------------------------------------------------------------
(* Claims about the workflow and the ledger's clients together (SpecAny) *)

\* C23: the status of a record is changed by update_bill_status only: a
\* pass of the loop body and a mark call leave it as it is, so that a
\* record stays pending through the passes until it is completed by hand.
C23_OnlyUpdateStatusChangesStatus ==
    [][ \A id \in DOMAIN bills :
            bills'[id].status # bills[id].status
                => Called("update_bill_status") /\ ret'.bill_id = id ]_vars

\* A record went through a pass that sent the payment request, was pending
\* after it, and was then completed by hand.
C23_Witness ==
    /\ ret.op = "update_bill_status"
    /\ last.bill_id = ret.bill_id
    /\ "request" \in last.ok
    /\ last.before.status = "pending"
    /\ bills[ret.bill_id].venmo_sent
    /\ bills[ret.bill_id].status = "completed"

\* C26: the store only grows: across any step every record that existed
\* keeps its id and its key, and every log entry that existed is still
\* there, in its place, with the same bill reference and action.
C26_AppendOnly ==
    [][ /\ \A id \in DOMAIN bills :
            /\ id \in DOMAIN bills'
            /\ bills'[id].bill_amount = bills[id].bill_amount
            /\ bills'[id].due_date = bills[id].due_date
        /\ Len(log') >= Len(log)
        /\ \A k \in DOMAIN log : log'[k] = log[k] ]_vars

\* A pass and a client's call have both written to the log after the
\* record was added.
C26_Witness ==
    /\ Len(bills) = 1
    /\ Len(log) >= 3
    /\ log[1] = [bill_id |-> 1, action |-> "bill_added"]
    /\ effects[1].passes = 1
    /\ ret.op \in MarkOps

\* C28: a progress flag that is true stays true: no call of the ledger and
\* no pass of the loop body sets pdf_generated, pdf_sent or venmo_sent of
\* a record back to false.
C28_FlagsAreMonotone ==
    [][ \A id \in DOMAIN bills :
            /\ bills[id].pdf_generated => bills'[id].pdf_generated
            /\ bills[id].pdf_sent => bills'[id].pdf_sent
            /\ bills[id].venmo_sent => bills'[id].venmo_sent ]_vars

\* A pass ran over a record whose notice had been marked as sent and made
\* its document; the record has all three flags.
C28_Witness ==
    /\ last.bill_id \in DOMAIN bills
    /\ last.before.pdf_sent
    /\ "render" \in last.ok
    /\ AllFlags(bills[last.bill_id])

----------------------------------------------------------------------------
(* Claims about a run that finds an earlier record (SpecRun) *)

\* The run found a record whose three flags were false, and saw the
\* message of that record again.
FoundHaltedRecord ==
    /\ run.before.bills # <<>>
    /\ NoFlags(run.before.bills[1])
    /\ \E k \in DOMAIN ing.outcomes :
        /\ ing.outcomes[k].id = run.before.bills[1].email_id
        /\ ing.outcomes[k].did = "duplicate"

\* C29: a record that an earlier run left with its flags false is advanced
\* by a later run over the same mailbox in which the collaborators succeed:
\* when that run has ended, the payment request of the record is sent.
C29_LaterRunAdvancesHaltedRecord ==
    ( /\ run.phase = "done"
      /\ run.result = "ok"
      /\ FoundHaltedRecord
      /\ \A k \in DOMAIN run.visits : run.visits[k].called = run.visits[k].ok )
        => bills[1].venmo_sent

----------------------------------------------------------------------------
(* Claims about the ledger with statements that fail (SpecFault) *)

\* The log entries of a bill with the given action.
Entries(id, action) ==
    {k \in DOMAIN log : log[k] = [bill_id |-> id, action |-> action]}

\* C25: a record and its log entry are committed together or not at all:
\* in every state, also after a call whose transaction failed between its
\* statements, each record has exactly one bill_added entry, and a record
\* whose pdf_generated, pdf_sent or venmo_sent flag is true has a log
\* entry of that name.
C25_RecordsAndLogCommitTogether ==
    \A id \in DOMAIN bills :
        /\ Cardinality(Entries(id, "bill_added")) = 1
        /\ bills[id].pdf_generated => Entries(id, "pdf_generated") # {}
        /\ bills[id].pdf_sent => Entries(id, "pdf_sent") # {}
        /\ bills[id].venmo_sent => Entries(id, "venmo_sent") # {}

\* A mark of a recorded bill failed at its log row, after its UPDATE, and
\* the flag it was setting is false; an earlier mark of the bill lasted.
C25_Witness ==
    /\ ret.op = "mark_pdf_sent"
    /\ ~ret.ok
    /\ ret.fault = "log"
    /\ ret.bill_id \in DOMAIN bills
    /\ ~bills[ret.bill_id].pdf_sent
    /\ bills[ret.bill_id].pdf_generated
    /\ Entries(ret.bill_id, "pdf_generated") # {}

----------------------------------------------------------------------------
(* Claims about several runs at once (SpecRuns) *)

\* The keys in the results['new_bills'] of run p.
NewKeys(p) ==
    { <<ing[p].results.new_bills[k].amount, ing[p].results.new_bills[k].due_date>> :
        k \in DOMAIN ing[p].results.new_bills }

\* The keys of the bills for which run p has called collaborator c.
KeysServed(p, c) ==
    { <<bills[run[p].visits[k].bill_id].bill_amount,
        bills[run[p].visits[k].bill_id].due_date>> :
        k \in {j \in DOMAIN run[p].visits : c \in run[p].visits[j].called} }

\* C30: when runs execute at once over the same mailbox, a bill, taken by
\* its (amount, due date), is in the newly added list of at most one of
\* them, and the renderer, the notifier and the payment request are called
\* for it by at most one of them.
C30_OneRunServesEachBill ==
    \A p \in Runs : \A q \in Runs \ {p} :
        /\ NewKeys(p) \cap NewKeys(q) = {}
        /\ \A c \in {"render", "notify", "request"} :
                KeysServed(p, c) \cap KeysServed(q, c) = {}

\* Two runs both found no row for a message; the first inserted the bill
\* and called the renderer and the payment request for it, the other was
\* turned away by the constraint and has ended its loop with no new bill.
C30_Witness ==
    \E p \in Runs : \E q \in Runs \ {p} :
        /\ ing[p].phase = "returned"
        /\ ing[q].phase = "returned"
        /\ NewKeys(p) # {}
        /\ KeysServed(p, "render") = NewKeys(p)
        /\ KeysServed(p, "request") = NewKeys(p)
        /\ \E k \in DOMAIN ing[q].outcomes :
            /\ ing[q].outcomes[k].did = "integrity"
            /\ ing[q].outcomes[k].filed = "duplicates"
        /\ NewKeys(q) = {}

=============================================================================
